---- MODULE Spec2Model ----
(***************************************************************************)
(* The RateLimiter of seed-database.ts as a state machine.                 *)
(*                                                                         *)
(* JavaScript runs one segment of code at a time, from one await to the    *)
(* next; every action below is one such segment.  A call of processQueue   *)
(* that passes its guard is an activation of the drain loop; activations   *)
(* are named by the job whose execute call started them, so that two       *)
(* concurrent drain loops are expressible (the code's guard is what rules  *)
(* them out).                                                              *)
(*                                                                         *)
(* Time is discrete, one unit = 1000 ms.  The clock is not kept as an      *)
(* absolute value: timeSinceLastCall is Date.now() - this.lastCallTime,    *)
(* saturating at TimeCap, and every pending setTimeout carries the time it *)
(* still has to wait.  Date.now() is taken to be monotonic and a timer     *)
(* never fires early; it may fire late.                                    *)
(***************************************************************************)
EXTENDS Integers, Sequences, FiniteSets, TLC

\* Number of jobs submitted with execute.
NumJobs == 3

\* timeSinceLastCall saturates here: the value TimeCap reads "TimeCap or more".
TimeCap == 3

\* private maxRetries = 3
MaxRetries == 3

\* new RateLimiter(2000), in units of 1000 ms
RateLimit == 2

Jobs == 1..NumJobs

\* Number of HTTP requests the server receives.
NumRequests == 3

Requests == 1..NumRequests

\* What one invocation of a callable can end with: a value, an error whose
\* message contains '429', an error whose message does not (or that has no
\* message), or a rejection with null/undefined.
Outcomes == {"ok", "rate", "other", "nullish"}

VARIABLES
    queue,              \* this.queue: the jobs whose task wrappers are queued
    processing,         \* this.processing
    timeSinceLastCall,  \* Date.now() - this.lastCallTime, saturating at TimeCap
    retryCount,         \* this.retryCount
    drain,              \* drain[d]: the activation of processQueue started by execute(d)
    submitOrder,        \* history: jobs in the order execute was called
    dequeued,           \* history: jobs in the order queue.shift() returned them
    started,            \* history: jobs in the order of their first invocation
    invocations,        \* history: invocations[j] = number of calls of job j's callable
    fails429,           \* history: how many of them failed with a '429' error
    backoffs,           \* history: the backoffTime of each retry of the job started last
    gapAtStart,         \* history: timeSinceLastCall read just before the latest first invocation
    lastOutcome,        \* history: what the latest invocation of job j ended with
    result,             \* the promise execute returned for j
    settles,            \* history: number of resolve/reject calls on that promise
    drainThrew,         \* history: some processQueue call ended by an exception
    sinceLastInvoke,    \* history: time since the latest invocation of a callable, saturating at TimeCap
    server,             \* index.ts: startServer's progress
    clockMs,            \* index.ts: Date.now() of the server, in ms since it listens
    req,                \* index.ts: req[r] = the handler run of request r
    responses,          \* index.ts: responses[r] = what was sent on res for r
    gpc,                \* agent.ts: the node the graph runs next, or how the run ended
    messages,           \* agent.ts: GraphState.messages
    steps,              \* agent.ts: supersteps run in this invoke
    nodeTrace,          \* history: the nodes run, with the tool calls of the message made
    returned,           \* agent.ts: what callAgent returned
    spc,                \* seedDatabase: where the current attempt stands
    attempt,            \* seedDatabase: how many calls of seedDatabase were made
    data,               \* seedDatabase: syntheticData of the current attempt
    idx,                \* seedDatabase: position of the for loop in syntheticData
    collection          \* the documents of hr_database.employees, in insertion order

\* The RateLimiter's fields but retryCount, and the history of its runs.
limiterVars == <<queue, processing, timeSinceLastCall, drain, submitOrder,
                 dequeued, started, invocations, fails429, backoffs, gapAtStart,
                 lastOutcome, result, settles, drainThrew, sinceLastInvoke>>

chatVars == <<server, clockMs, req, responses>>

graphVars == <<gpc, messages, steps, nodeTrace, returned>>

seedVars == <<spc, attempt, data, idx, collection>>

vars == <<limiterVars, retryCount, chatVars, graphVars, seedVars>>

\* What the RateLimiter's own steps leave alone.
outsideLimiter == <<chatVars, graphVars, seedVars>>

hist == <<submitOrder, dequeued, started, invocations, fails429, backoffs,
          gapAtStart, lastOutcome, result, settles, drainThrew>>

NoOutcome == [kind |-> "none"]

NoRequest == [pc |-> "none", route |-> "none", threadId |-> <<>>]

NoMessage == [type |-> "none", calls |-> 0, id |-> 0]

NoDrain == [pc |-> "none", task |-> 0, timer |-> 0, outcome |-> NoOutcome]

Pending == [state |-> "pending"]

Init ==
    /\ queue = <<>>
    /\ processing = FALSE
    /\ timeSinceLastCall = TimeCap
    /\ retryCount = 0
    /\ drain = [d \in Jobs |-> NoDrain]
    /\ submitOrder = <<>>
    /\ dequeued = <<>>
    /\ started = <<>>
    /\ invocations = [j \in Jobs |-> 0]
    /\ fails429 = [j \in Jobs |-> 0]
    /\ backoffs = <<>>
    /\ gapAtStart = TimeCap
    /\ lastOutcome = [j \in Jobs |-> NoOutcome]
    /\ result = [j \in Jobs |-> Pending]
    /\ settles = [j \in Jobs |-> 0]
    /\ drainThrew = FALSE
    /\ sinceLastInvoke = TimeCap
    /\ server = "starting"
    /\ clockMs = 0
    /\ req = [r \in Requests |-> NoRequest]
    /\ responses = [r \in Requests |-> <<>>]
    /\ gpc = "idle"
    /\ messages = <<>>
    /\ steps = 0
    /\ nodeTrace = <<>>
    /\ returned = NoMessage
    /\ spc = "idle"
    /\ attempt = 0
    /\ data = <<>>
    /\ idx = 0
    /\ collection = <<>>

Min(a, b) == IF a < b THEN a ELSE b

\* Variant: the test is <= instead of <.
NeedsWaitInclusive(ts) == ts <= RateLimit

\* if (timeSinceLastCall < this.rateLimit)
NeedsWait(ts) == ts < RateLimit

\* Variant: the wait is one unit short.
WaitTimeShort(ts) == RateLimit - ts - 1

\* const waitTime = this.rateLimit - timeSinceLastCall
WaitTime(ts) == RateLimit - ts

\* Variant: every error with a message counts as a rate-limit error.
IsRateLimitErrorAnyMessage(kind) == kind \in {"rate", "other"}

\* error.message?.includes('429')
IsRateLimitError(kind) == kind = "rate"

\* Variant: retryCount * 1000.
BackoffTimeLinear(rc) == rc

\* Math.pow(2, this.retryCount) * 1000, in units of 1000 ms
BackoffTime(rc) == 2 ^ rc

\* Variant: the retry bound is tested with <= instead of <.
RetryDecisionOffByOne(err, rc) ==
    IF err.kind = "nullish"
    THEN [retry |-> FALSE, thrown |-> [err EXCEPT !.kind = "typeerror"]]
    ELSE IF err.kind = "rate" /\ rc <= MaxRetries
         THEN [retry |-> TRUE, thrown |-> err]
         ELSE [retry |-> FALSE, thrown |-> err]

\* Variant: the retry bound is not tested at all.
RetryDecisionNoBound(err, rc) ==
    IF err.kind = "nullish"
    THEN [retry |-> FALSE, thrown |-> [err EXCEPT !.kind = "typeerror"]]
    ELSE [retry |-> err.kind = "rate", thrown |-> err]

\* The catch block of retryWithBackoff for the rejection err of fn(), with
\* this.retryCount = rc: whether it retries, and otherwise what it throws.
\* Reading error.message of null or undefined throws a TypeError, which takes
\* the place of the rejection.
RetryDecision(err, rc) ==
    IF err.kind = "nullish"
    THEN [retry |-> FALSE, thrown |-> [err EXCEPT !.kind = "typeerror"]]
    ELSE IF IsRateLimitError(err.kind) /\ rc < MaxRetries
         THEN [retry |-> TRUE, thrown |-> err]
         ELSE [retry |-> FALSE, thrown |-> err]

\* Variant: the guard does not look at this.processing.
PassesGuardNoFlag(p, q) == Len(q) # 0

\* Variant: the length test is off by one.
PassesGuardLongQueue(p, q) == ~(p \/ Len(q) <= 1)

\* if (this.processing || this.queue.length === 0) return;
PassesGuard(p, q) == ~(p \/ Len(q) = 0)

\* Variant: queue.pop(), the newest task first.
Popped(q) == [task |-> q[Len(q)], rest |-> SubSeq(q, 1, Len(q) - 1)]

\* Variant: the head is read but not removed.
Peeked(q) == [task |-> Head(q), rest |-> q]

\* const task = this.queue.shift()
Shifted(q) == [task |-> Head(q), rest |-> Tail(q)]

\* Variant: the wrapper's catch rethrows after reject(error).
TaskPromiseRethrows(err) == err

\* What the promise of the task wrapper settles with when retryWithBackoff
\* rejected with err: the wrapper's catch calls reject(error) and returns.
TaskPromise(err) == [kind |-> "fulfilled"]

\* What reject(error) hands to the caller of execute.
Rejection(err) == [state |-> "rejected", with |-> err]

\* What resolve(result) hands to the caller of execute.
Resolution(val) == [state |-> "resolved", with |-> val]

\* A promise is settled by the first resolve or reject; later calls do nothing.
Settle(j, r) == IF result[j] = Pending THEN [result EXCEPT ![j] = r] ELSE result

\* this.lastCallTime = Date.now(); ... await fn()   (first invocation of task t)
FirstCall(d, t) ==
    /\ timeSinceLastCall' = 0
    /\ sinceLastInvoke' = 0
    /\ gapAtStart' = timeSinceLastCall
    /\ backoffs' = <<>>
    /\ started' = Append(started, t)
    /\ invocations' = [invocations EXCEPT ![t] = @ + 1]
    /\ drain' = [drain EXCEPT ![d] =
                    [pc |-> "call", task |-> t, timer |-> 0, outcome |-> NoOutcome]]

\* The task wrapper of job t, from its start to its first await.
RunTask(d, t) ==
    IF NeedsWait(timeSinceLastCall)
    THEN /\ drain' = [drain EXCEPT ![d] =
                        [pc |-> "wait", task |-> t,
                         timer |-> WaitTime(timeSinceLastCall),
                         outcome |-> NoOutcome]]
         /\ UNCHANGED <<timeSinceLastCall, sinceLastInvoke, gapAtStart,
                        backoffs, started, invocations>>
    ELSE FirstCall(d, t)

\* Variant: the loop ends without this.processing = false.
LoopStepKeepsFlag(d, q, p) ==
    IF Len(q) > 0
    THEN /\ queue' = Shifted(q).rest
         /\ dequeued' = Append(dequeued, Shifted(q).task)
         /\ processing' = p
         /\ RunTask(d, Shifted(q).task)
    ELSE /\ queue' = q
         /\ processing' = p
         /\ drain' = [drain EXCEPT ![d] = NoDrain]
         /\ UNCHANGED <<dequeued, timeSinceLastCall, sinceLastInvoke,
                        gapAtStart, backoffs, started, invocations>>

\* The while loop of processQueue from its test, in activation d, with queue q
\* and processing = p at this point.
LoopStep(d, q, p) ==
    IF Len(q) > 0
    THEN /\ queue' = Shifted(q).rest
         /\ dequeued' = Append(dequeued, Shifted(q).task)
         /\ processing' = p
         /\ RunTask(d, Shifted(q).task)
    ELSE /\ queue' = q
         /\ processing' = FALSE
         /\ drain' = [drain EXCEPT ![d] = NoDrain]
         /\ UNCHANGED <<dequeued, timeSinceLastCall, sinceLastInvoke,
                        gapAtStart, backoffs, started, invocations>>

\* execute(fn) for job j: push the task wrapper, call processQueue, which runs
\* up to its first await.  Jobs are numbered by their execute calls: job j is
\* the one the j-th call submits, whoever the caller is and whenever it calls.
Execute(j) ==
    /\ j = Len(submitOrder) + 1
    /\ submitOrder' = Append(submitOrder, j)
    /\ IF PassesGuard(processing, Append(queue, j))
       THEN LoopStep(j, Append(queue, j), TRUE)
       ELSE /\ queue' = Append(queue, j)
            /\ UNCHANGED <<processing, drain, dequeued, timeSinceLastCall,
                           sinceLastInvoke, gapAtStart, backoffs, started,
                           invocations>>
    /\ UNCHANGED <<retryCount, fails429, lastOutcome, result, settles,
                   drainThrew>>
    /\ UNCHANGED outsideLimiter

\* The setTimeout of the min-interval wait fires: the wrapper records the
\* start and invokes the callable.
WaitDone(d) ==
    /\ drain[d].pc = "wait"
    /\ drain[d].timer = 0
    /\ FirstCall(d, drain[d].task)
    /\ UNCHANGED <<queue, processing, retryCount, submitOrder, dequeued,
                   fails429, lastOutcome, result, settles, drainThrew>>
    /\ UNCHANGED outsideLimiter

\* The promise of fn() settles.
FnSettle(d, k) ==
    /\ drain[d].pc = "call"
    /\ LET t == drain[d].task IN
        /\ drain' = [drain EXCEPT ![d].pc = "settled",
                        ![d].outcome = [kind |-> k, job |-> t,
                                        attempt |-> invocations[t]]]
        /\ lastOutcome' = [lastOutcome EXCEPT ![t] =
                              [kind |-> k, job |-> t, attempt |-> invocations[t]]]
        /\ fails429' = [fails429 EXCEPT ![t] =
                           IF IsRateLimitError(k) THEN @ + 1 ELSE @]
    /\ UNCHANGED <<queue, processing, timeSinceLastCall, sinceLastInvoke,
                   retryCount, submitOrder, dequeued, started, invocations,
                   backoffs, gapAtStart, result, settles, drainThrew>>
    /\ UNCHANGED outsideLimiter

\* retryWithBackoff after await fn(): return the value, or the catch block.
RetryContinue(d) ==
    /\ drain[d].pc = "settled"
    /\ LET t == drain[d].task
           o == drain[d].outcome
           dec == RetryDecision(o, retryCount)
       IN IF o.kind = "ok"
          THEN /\ drain' = [drain EXCEPT ![d].pc = "returned"]
               /\ UNCHANGED <<retryCount, backoffs>>
          ELSE IF dec.retry
          THEN /\ retryCount' = retryCount + 1
               /\ backoffs' = Append(backoffs, BackoffTime(retryCount + 1))
               /\ drain' = [drain EXCEPT ![d].pc = "backoff",
                               ![d].timer = BackoffTime(retryCount + 1),
                               ![d].outcome = NoOutcome]
          ELSE /\ drain' = [drain EXCEPT ![d].pc = "returned",
                               ![d].outcome = dec.thrown]
               /\ UNCHANGED <<retryCount, backoffs>>
    /\ UNCHANGED <<queue, processing, timeSinceLastCall, sinceLastInvoke,
                   submitOrder, dequeued, started, invocations, fails429,
                   gapAtStart, lastOutcome, result, settles, drainThrew>>
    /\ UNCHANGED outsideLimiter

\* The setTimeout of the backoff fires: return this.retryWithBackoff(fn).
BackoffDone(d) ==
    /\ drain[d].pc = "backoff"
    /\ drain[d].timer = 0
    /\ invocations' = [invocations EXCEPT ![drain[d].task] = @ + 1]
    /\ sinceLastInvoke' = 0
    /\ drain' = [drain EXCEPT ![d].pc = "call"]
    /\ UNCHANGED <<queue, processing, timeSinceLastCall, retryCount,
                   submitOrder, dequeued, started, fails429, backoffs,
                   gapAtStart, lastOutcome, result, settles, drainThrew>>
    /\ UNCHANGED outsideLimiter

\* The task wrapper after await this.retryWithBackoff(fn): reset and resolve,
\* or the catch with reject.
TaskContinue(d) ==
    /\ drain[d].pc = "returned"
    /\ LET t == drain[d].task
           o == drain[d].outcome
       IN IF o.kind = "ok"
          THEN /\ retryCount' = 0
               /\ result' = Settle(t, Resolution(o))
               /\ drain' = [drain EXCEPT ![d].pc = "taskdone",
                               ![d].outcome = [kind |-> "fulfilled"]]
          ELSE /\ result' = Settle(t, Rejection(o))
               /\ drain' = [drain EXCEPT ![d].pc = "taskdone",
                               ![d].outcome = TaskPromise(o)]
               /\ UNCHANGED retryCount
    /\ settles' = [settles EXCEPT ![drain[d].task] = @ + 1]
    /\ UNCHANGED <<queue, processing, timeSinceLastCall, sinceLastInvoke,
                   submitOrder, dequeued, started, invocations, fails429,
                   backoffs, gapAtStart, lastOutcome, drainThrew>>
    /\ UNCHANGED outsideLimiter

\* processQueue after await task(): the next turn of the loop, or, had the
\* task's promise rejected, the exception leaves processQueue.
DrainResume(d) ==
    /\ drain[d].pc = "taskdone"
    /\ IF drain[d].outcome.kind = "fulfilled"
       THEN /\ LoopStep(d, queue, processing)
            /\ UNCHANGED drainThrew
       ELSE /\ drain' = [drain EXCEPT ![d] = NoDrain]
            /\ drainThrew' = TRUE
            /\ UNCHANGED <<queue, processing, dequeued, timeSinceLastCall,
                           sinceLastInvoke, gapAtStart, backoffs, started,
                           invocations>>
    /\ UNCHANGED <<retryCount, submitOrder, fails429, lastOutcome, result,
                   settles>>
    /\ UNCHANGED outsideLimiter

\* One unit of time passes.
Tick ==
    /\ \/ timeSinceLastCall < TimeCap
       \/ sinceLastInvoke < TimeCap
       \/ \E d \in Jobs : drain[d].timer > 0
    /\ timeSinceLastCall' = Min(timeSinceLastCall + 1, TimeCap)
    /\ sinceLastInvoke' = Min(sinceLastInvoke + 1, TimeCap)
    /\ drain' = [d \in Jobs |->
                    IF drain[d].timer > 0
                    THEN [drain[d] EXCEPT !.timer = @ - 1]
                    ELSE drain[d]]
    /\ UNCHANGED <<queue, processing, retryCount>>
    /\ UNCHANGED hist
    /\ UNCHANGED outsideLimiter

Next ==
    \/ \E j \in Jobs : Execute(j)
    \/ \E d \in Jobs : WaitDone(d)
    \/ \E d \in Jobs, k \in Outcomes : FnSettle(d, k)
    \/ \E d \in Jobs : RetryContinue(d)
    \/ \E d \in Jobs : BackoffDone(d)
    \/ \E d \in Jobs : TaskContinue(d)
    \/ \E d \in Jobs : DrainResume(d)
    \/ Tick

Spec == Init /\ [][Next]_vars

\* The event loop runs every continuation that is ready and fires every timer
\* that is due, time passes, and every invocation of a callable ends.  Nothing
\* obliges a caller to call execute.
FairSpec ==
    /\ Spec
    /\ WF_vars(Tick)
    /\ \A d \in Jobs :
           /\ WF_vars(WaitDone(d))
           /\ WF_vars(\E k \in Outcomes : FnSettle(d, k))
           /\ WF_vars(RetryContinue(d))
           /\ WF_vars(BackoffDone(d))
           /\ WF_vars(TaskContinue(d))
           /\ WF_vars(DrainResume(d))

\* ---------------------------------------------------------------------
\* index.ts: the chat server.  One action per run-to-completion segment of
\* startServer and of the two POST handlers.  callAgent is awaited by the
\* handler; what it does is the graph further down, here it settles with a
\* response or with an Error whose message holds '429', '401', both or
\* neither.
\* ---------------------------------------------------------------------

\* Bound of the server's clock, in ms.
MaxClock == 2

\* The statuses the handlers send.
StatusOk == 200
StatusRateLimited == 429
StatusUnauthorized == 401
StatusInternal == 500

\* The errors callAgent rejects with, by what error.message contains.
AgentErrors == [has429 : BOOLEAN, has401 : BOOLEAN]

RECURSIVE Digits(_)
\* Number.prototype.toString of a non-negative integer: its decimal digits.
Digits(n) == IF n < 10 THEN <<n>> ELSE Append(Digits(n \div 10), n % 10)

\* Date.now().toString()
NewThreadId(now) == Digits(now)

NoThreadId == <<>>

NoError == [has429 |-> FALSE, has401 |-> FALSE]

ErrorStatus401First(error) ==
    IF error.has401 THEN StatusUnauthorized
    ELSE IF error.has429 THEN StatusRateLimited
    ELSE StatusInternal

\* The catch block of both handlers.
ErrorStatus(error) ==
    IF error.has429 THEN StatusRateLimited
    ELSE IF error.has401 THEN StatusUnauthorized
    ELSE StatusInternal

Accepted == {r \in Requests : req[r].pc # "none"}

\* startServer: connect and ping, then register the routes and listen; a
\* failure to connect exits the process.
StartServer(connected) ==
    /\ server = "starting"
    /\ server' = IF connected THEN "listening" ELSE "exited"
    /\ UNCHANGED <<clockMs, req, responses>>
    /\ UNCHANGED <<limiterVars, retryCount, graphVars, seedVars>>

\* A millisecond passes.
ClockTick ==
    /\ server = "listening"
    /\ clockMs < MaxClock
    /\ clockMs' = clockMs + 1
    /\ UNCHANGED <<server, req, responses>>
    /\ UNCHANGED <<limiterVars, retryCount, graphVars, seedVars>>

\* POST /chat: the handler runs up to its await of callAgent.  Requests are
\* numbered in the order the server handles them.
PostChat(r) ==
    /\ server = "listening"
    /\ r = Cardinality(Accepted) + 1
    /\ req' = [req EXCEPT ![r] = [pc |-> "calling", route |-> "new",
                                  threadId |-> NewThreadId(clockMs)]]
    /\ UNCHANGED <<server, clockMs, responses>>
    /\ UNCHANGED <<limiterVars, retryCount, graphVars, seedVars>>

\* POST /chat/:threadId: the handler runs up to its await of callAgent.
PostChatThread(r, t) ==
    /\ server = "listening"
    /\ r = Cardinality(Accepted) + 1
    /\ req' = [req EXCEPT ![r] = [pc |-> "calling", route |-> "existing",
                                  threadId |-> t]]
    /\ UNCHANGED <<server, clockMs, responses>>
    /\ UNCHANGED <<limiterVars, retryCount, graphVars, seedVars>>

\* callAgent resolved: res.json of the response, with the threadId on the
\* route that made it.
AgentResolves(r) ==
    /\ req[r].pc = "calling"
    /\ req' = [req EXCEPT ![r].pc = "done"]
    /\ responses' = [responses EXCEPT ![r] = Append(@,
          [status |-> StatusOk, body |-> "response", failed |-> FALSE,
           error |-> NoError,
           threadId |-> IF req[r].route = "new" THEN req[r].threadId
                        ELSE NoThreadId])]
    /\ UNCHANGED <<server, clockMs>>
    /\ UNCHANGED <<limiterVars, retryCount, graphVars, seedVars>>

\* callAgent rejected: the catch block answers with the status of the error.
AgentRejects(r, error) ==
    /\ req[r].pc = "calling"
    /\ req' = [req EXCEPT ![r].pc = "done"]
    /\ responses' = [responses EXCEPT ![r] = Append(@,
          [status |-> ErrorStatus(error), body |-> "error", failed |-> TRUE,
           error |-> error,
           threadId |-> NoThreadId])]
    /\ UNCHANGED <<server, clockMs>>
    /\ UNCHANGED <<limiterVars, retryCount, graphVars, seedVars>>

ChatNext ==
    \/ \E connected \in BOOLEAN : StartServer(connected)
    \/ ClockTick
    \/ \E r \in Requests : PostChat(r)
    \/ \E r \in Requests, c \in 0..MaxClock : PostChatThread(r, NewThreadId(c))
    \/ \E r \in Requests : AgentResolves(r)
    \/ \E r \in Requests, error \in AgentErrors : AgentRejects(r, error)

ChatSpec == Init /\ [][ChatNext]_vars

\* ---------------------------------------------------------------------
\* agent.ts: one run of callAgent.  The compiled graph runs one node per
\* step; the state's messages are concatenated by the reducer; a message is
\* [type, calls, id] with calls the length of its tool_calls and id its
\* position in the state.
\* ---------------------------------------------------------------------

\* Most tool calls one model message carries.
MaxToolCalls == 2

\* recursionLimit of app.invoke
RecursionLimit == 15

Human(ms) == [type |-> "human", calls |-> 0, id |-> Len(ms) + 1]

Ai(ms, n) == [type |-> "ai", calls |-> n, id |-> Len(ms) + 1]

Tool(ms) == [type |-> "tool", calls |-> 0, id |-> Len(ms) + 1]

\* What the checkpointer holds for the thread when callAgent is called:
\* nothing, a finished exchange, or an exchange whose run failed after the
\* model asked for a tool.
PriorThreads ==
    { <<>>,
      <<Human(<<>>), Ai(<<Human(<<>>)>>, 0)>>,
      <<Human(<<>>), Ai(<<Human(<<>>)>>, 1)>> }

RECURSIVE ToolMessages(_, _)
\* toolNode: one tool message for each tool call of the last message.
ToolMessages(ms, n) ==
    IF n = 0 THEN ms ELSE ToolMessages(Append(ms, Tool(ms)), n - 1)

ShouldContinueAlways(ms) == "tools"

\* shouldContinue: where the conditional edge out of "agent" leads.
ShouldContinue(ms) ==
    LET lastMessage == ms[Len(ms)]
    IN  IF lastMessage.calls > 0 THEN "tools" ELSE "__end__"

\* app.invoke({ messages: [new HumanMessage(query)] }, ...): the input is
\* added to the thread's messages and the edge from __start__ is taken.
CallAgent(prior) ==
    /\ gpc = "idle"
    /\ messages' = Append(prior, Human(prior))
    /\ gpc' = "agent"
    /\ steps' = 0
    /\ nodeTrace' = <<>>
    /\ UNCHANGED returned
    /\ UNCHANGED <<limiterVars, retryCount, chatVars, seedVars>>

\* The node "agent": callModel adds the model's message, then the
\* conditional edge is evaluated on the new state.
AgentNode(n) ==
    /\ gpc = "agent"
    /\ steps < RecursionLimit
    /\ messages' = Append(messages, Ai(messages, n))
    /\ steps' = steps + 1
    /\ nodeTrace' = Append(nodeTrace, [node |-> "agent", calls |-> n])
    /\ gpc' = ShouldContinue(messages')
    /\ UNCHANGED returned
    /\ UNCHANGED <<limiterVars, retryCount, chatVars, seedVars>>

\* The node "tools": toolNode runs the tool calls of the last message, then
\* the edge to "agent" is taken.
ToolsNode ==
    /\ gpc = "tools"
    /\ steps < RecursionLimit
    /\ messages' = ToolMessages(messages, messages[Len(messages)].calls)
    /\ steps' = steps + 1
    /\ nodeTrace' = Append(nodeTrace,
                           [node |-> "tools",
                            calls |-> messages[Len(messages)].calls])
    /\ gpc' = "agent"
    /\ UNCHANGED returned
    /\ UNCHANGED <<limiterVars, retryCount, chatVars, seedVars>>

\* A node throws (the model call or the database lookup fails): app.invoke
\* rejects and so does callAgent.
NodeFails ==
    /\ gpc \in {"agent", "tools"}
    /\ steps < RecursionLimit
    /\ gpc' = "failed"
    /\ UNCHANGED <<messages, steps, nodeTrace, returned>>
    /\ UNCHANGED <<limiterVars, retryCount, chatVars, seedVars>>

\* recursionLimit steps were run and a node is still due: app.invoke
\* rejects with a GraphRecursionError.
RecursionLimitHit ==
    /\ gpc \in {"agent", "tools"}
    /\ steps = RecursionLimit
    /\ gpc' = "failed"
    /\ UNCHANGED <<messages, steps, nodeTrace, returned>>
    /\ UNCHANGED <<limiterVars, retryCount, chatVars, seedVars>>

\* app.invoke resolved: callAgent returns the content of the last message
\* of the final state.
ReturnContent ==
    /\ gpc = "__end__"
    /\ returned' = messages[Len(messages)]
    /\ gpc' = "returned"
    /\ UNCHANGED <<messages, steps, nodeTrace>>
    /\ UNCHANGED <<limiterVars, retryCount, chatVars, seedVars>>

GraphNext ==
    \/ \E prior \in PriorThreads : CallAgent(prior)
    \/ \E n \in 0..MaxToolCalls : AgentNode(n)
    \/ ToolsNode
    \/ NodeFails
    \/ RecursionLimitHit
    \/ ReturnContent

GraphSpec == Init /\ [][GraphNext]_vars

\* ---------------------------------------------------------------------
\* seedDatabase.  One action per segment between its awaits.  The database
\* is taken to apply deleteMany and insertOne atomically: an operation that
\* rejects has changed nothing.  client.close() of the finally block does
\* not change the collection; the operations of the attempt started by
\* `return seedDatabase()` may fail for it, as they may for any reason.
\* rateLimiter.execute is followed through the invocations it makes of the
\* insert callable (RetryDecision, retryCount); its waits are left out.
\* ---------------------------------------------------------------------

\* Most calls of seedDatabase in one run of the script.
MaxAttempts == 3

\* Most records one generation returns.
MaxRecords == 2

\* How a database operation ends: done, or rejected with an Error whose
\* message holds '429' or does not.
DbOutcomes == {"ok", "rate", "other"}

\* parser.parse(response.content): the records of one generation.
Generated(a, n) == [i \in 1..n |-> <<a, i>>]

DeleteManyKeepsAll(docs) == docs

\* collection.deleteMany({})
DeleteMany(docs) == <<>>

InsertOneTwice(docs, record) == Append(Append(docs, record), record)

\* collection.insertOne({ ...record, summary, created_at })
InsertOne(docs, record) == Append(docs, record)

\* The catch block: a retry after 5 seconds for an Error with '429' in its
\* message, the end of the run for any other.
Caught(kind) == IF IsRateLimitError(kind) THEN "sleeping" ELSE "gaveup"

\* seedDatabase() is called: by the script, or 5 seconds after an empty
\* generation or a '429' error; it runs up to await client.connect().
SeedDatabase ==
    /\ spc \in {"idle", "sleeping"}
    /\ attempt < MaxAttempts
    /\ attempt' = attempt + 1
    /\ spc' = "connecting"
    /\ UNCHANGED <<data, idx, collection, retryCount>>
    /\ UNCHANGED <<limiterVars, chatVars, graphVars>>

\* client.connect() settled; deleteMany is issued.
Connected(k) ==
    /\ spc = "connecting"
    /\ spc' = IF k = "ok" THEN "deleting" ELSE Caught(k)
    /\ UNCHANGED <<attempt, data, idx, collection, retryCount>>
    /\ UNCHANGED <<limiterVars, chatVars, graphVars>>

\* collection.deleteMany({}) settled; generateSyntheticData is called.
Deleted(k) ==
    /\ spc = "deleting"
    /\ IF k = "ok"
       THEN /\ collection' = DeleteMany(collection)
            /\ spc' = "generating"
       ELSE /\ collection' = collection
            /\ spc' = Caught(k)
    /\ UNCHANGED <<attempt, data, idx, retryCount>>
    /\ UNCHANGED <<limiterVars, chatVars, graphVars>>

\* generateSyntheticData resolved with n records (none when the model call
\* or the parse failed): an empty list ends the attempt with a retry in 5
\* seconds, otherwise the first record is submitted to the rate limiter.
GeneratedData(n) ==
    /\ spc = "generating"
    /\ data' = Generated(attempt, n)
    /\ IF n = 0
       THEN spc' = "sleeping" /\ idx' = idx
       ELSE spc' = "inserting" /\ idx' = 1
    /\ UNCHANGED <<attempt, collection, retryCount>>
    /\ UNCHANGED <<limiterVars, chatVars, graphVars>>

\* The rate limiter invoked the insert callable of record idx and insertOne
\* settled: on success execute resolves and the loop goes on to the next
\* record or ends; on a failure the limiter retries or execute rejects.
InsertInvoked(k) ==
    /\ spc = "inserting"
    /\ IF k = "ok"
       THEN /\ collection' = InsertOne(collection, data[idx])
            /\ retryCount' = 0
            /\ IF idx = Len(data)
               THEN spc' = "completed" /\ idx' = idx
               ELSE spc' = spc /\ idx' = idx + 1
       ELSE /\ collection' = collection
            /\ idx' = idx
            /\ IF RetryDecision([kind |-> k], retryCount).retry
               THEN retryCount' = retryCount + 1 /\ spc' = spc
               ELSE retryCount' = retryCount /\ spc' = Caught(k)
    /\ UNCHANGED <<attempt, data>>
    /\ UNCHANGED <<limiterVars, chatVars, graphVars>>

SeedNext ==
    \/ SeedDatabase
    \/ \E k \in DbOutcomes : Connected(k)
    \/ \E k \in DbOutcomes : Deleted(k)
    \/ \E n \in 0..MaxRecords : GeneratedData(n)
    \/ \E k \in DbOutcomes : InsertInvoked(k)

SeedSpec == Init /\ [][SeedNext]_vars

TypeOK ==
    /\ processing \in BOOLEAN
    /\ timeSinceLastCall \in 0..TimeCap
    /\ retryCount \in Nat
    /\ \A d \in Jobs : drain[d].pc \in
          {"none", "wait", "call", "settled", "backoff", "returned", "taskdone"}
    /\ server \in {"starting", "listening", "exited"}
    /\ clockMs \in 0..MaxClock
    /\ \A r \in Requests :
          /\ req[r].pc \in {"none", "calling", "done"}
          /\ req[r].route \in {"none", "new", "existing"}
          /\ Len(responses[r]) <= 1
    /\ gpc \in {"idle", "agent", "tools", "__end__", "returned", "failed"}
    /\ steps \in 0..RecursionLimit
    /\ Len(nodeTrace) = steps
    /\ spc \in {"idle", "connecting", "deleting", "generating", "inserting",
               "sleeping", "completed", "gaveup"}
    /\ attempt \in 0..MaxAttempts
    /\ idx \in 0..MaxRecords
    /\ Len(data) <= MaxRecords

Range(s) == {s[i] : i \in 1..Len(s)}

\* C1: every job but the first is first invoked no earlier than rateLimit
\* after the recorded start (lastCallTime) of the job started before it.
C1_MinIntervalBetweenStarts ==
    Len(started) >= 2 => gapAtStart >= RateLimit

\* The second job was held back by the min-interval wait and has started
\* exactly rateLimit after the first.
C1_Witness ==
    /\ Len(started) = 2
    /\ gapAtStart = RateLimit
    /\ \E d \in Jobs : drain[d].pc = "call" /\ drain[d].task = started[2]

\* C2: the retry budget is per job: a job is finally rejected with a
\* rate-limit error only after maxRetries retries of its own, whatever the
\* jobs before it did.
C2_RetryBudgetPerJob ==
    \A j \in Jobs :
        (result[j].state = "rejected" /\ result[j].with.kind = "rate")
            => invocations[j] = MaxRetries + 1

\* C3: the first job of a fresh RateLimiter, failing with '429' on every
\* invocation, is settled only after maxRetries + 1 invocations, and then
\* rejected with the error of the last one.
C3_AlwaysRateLimitedJob ==
    (result[1] # Pending /\ fails429[1] = invocations[1])
        => /\ invocations[1] = MaxRetries + 1
           /\ result[1] = Rejection([kind |-> "rate", job |-> 1,
                                     attempt |-> MaxRetries + 1])

\* The only job submitted so far failed with '429' every time and was rejected.
C3_Witness ==
    /\ submitOrder = <<1>>
    /\ result[1].state = "rejected"
    /\ fails429[1] = invocations[1]
    /\ invocations[1] = 4

\* C4: the K-th retry of a job is preceded by a backoff of 2^K seconds,
\* whatever jobs ran before it.
C4_BackoffIsTwoToTheK ==
    \A k \in 1..Len(backoffs) : backoffs[k] = 2 ^ k
\* The jobs that were dequeued and whose promise is not settled yet.
InFlight == {j \in Range(dequeued) : result[j] = Pending}

\* The activations of processQueue that have not returned.
ActiveDrains == {d \in Jobs : drain[d].pc # "none"}

\* C5: after an invocation failed with an error whose message does not
\* contain '429', the callable is not invoked again, no backoff is waited for,
\* and the caller's promise is rejected with that very error.
C5_OtherErrorIsFinal ==
    \A j \in Jobs :
        lastOutcome[j].kind = "other" =>
            /\ invocations[j] = lastOutcome[j].attempt
            /\ \A d \in Jobs :
                   drain[d].task = j => drain[d].pc \notin {"call", "backoff"}
            /\ (j = started[Len(started)] => Len(backoffs) = invocations[j] - 1)
            /\ (result[j] # Pending => result[j] = Rejection(lastOutcome[j]))

\* A job was retried after a '429', then failed with another error and was
\* rejected with it; another job was rejected after a single invocation.
C5_Witness ==
    /\ \E j \in Jobs :
           /\ result[j].state = "rejected"
           /\ result[j].with.kind = "other"
           /\ invocations[j] = 2
    /\ \E j \in Jobs :
           /\ result[j].state = "rejected"
           /\ result[j].with.kind = "other"
           /\ invocations[j] = 1

\* C6: retryCount stays within 0..maxRetries and no callable is invoked more
\* than maxRetries + 1 times.
C6_RetriesBounded ==
    /\ retryCount \in 0..MaxRetries
    /\ \A j \in Jobs : invocations[j] <= MaxRetries + 1

\* A job has used up its retries: fourth invocation, retryCount at the bound,
\* and that invocation failed with '429' again.
C6_Witness ==
    \E d \in Jobs :
        /\ drain[d].pc = "returned"
        /\ drain[d].outcome.kind = "rate"
        /\ invocations[drain[d].task] = MaxRetries + 1
        /\ retryCount = MaxRetries

\* C7: jobs are dequeued and first invoked in the order of their execute
\* calls, and the queue holds the jobs not yet dequeued in that order.
C7_FifoStartOrder ==
    /\ started = SubSeq(submitOrder, 1, Len(started))
    /\ dequeued = SubSeq(submitOrder, 1, Len(dequeued))
    /\ queue = SubSeq(submitOrder, Len(dequeued) + 1, Len(submitOrder))

\* The second job has started after the first while a third, submitted
\* during the drain, waits in the queue and the second is in backoff.
C7_Witness ==
    /\ Len(started) = 2
    /\ Len(queue) = 1
    /\ \E d \in Jobs : drain[d].pc = "backoff" /\ drain[d].task = started[2]

\* C8: at most one job is in flight: from its dequeue to the settling of its
\* promise no other task is dequeued, waits or has its callable invoked.
C8_OneJobInFlight ==
    /\ Cardinality(InFlight) <= 1
    /\ \A d \in Jobs :
           drain[d].pc \in {"wait", "call", "settled", "backoff", "returned"}
               => InFlight = {drain[d].task}

\* A job is in flight, its callable invoked, while two others are queued.
C8_Witness ==
    /\ Len(queue) = 2
    /\ \E d \in Jobs : drain[d].pc = "call" /\ drain[d].task \in InFlight

\* C9: at most one drain loop is active, and every submitted job is either
\* still queued, once, or was dequeued once; none is dequeued or started twice
\* and none is lost.
C9_SingleDrainEachJobOnce ==
    /\ Cardinality(ActiveDrains) <= 1
    /\ Len(dequeued) + Len(queue) = Len(submitOrder)
    /\ Range(dequeued) \cup Range(queue) = Range(submitOrder)
    /\ Len(started) = Cardinality(Range(started))
    /\ Range(started) \subseteq Range(dequeued)
    /\ \A j \in Jobs : settles[j] <= 1

\* All jobs were submitted, the later ones during the drain that the first
\* execute call started, and that one drain has dequeued them all.
C9_Witness ==
    /\ Len(dequeued) = NumJobs
    /\ ActiveDrains = {1}
    /\ drain[1].task = NumJobs
\* C10: a job's final failure rejects only its caller: no processQueue call
\* ends by an exception, processing is true only while a drain loop is
\* active, and every job queued at a time when some job has been rejected is
\* still dequeued and invoked.
C10_FailureDoesNotStopDrain ==
    /\ [](~drainThrew /\ (processing => ActiveDrains # {}))
    /\ \A k \in Jobs :
           ((\E j \in Jobs : result[j].state = "rejected") /\ k \in Range(queue))
               ~> (k \in Range(started))

\* The first job was rejected, and the drain loop that ran it has gone on to
\* invoke the second.
C10_Witness ==
    /\ result[1].state = "rejected"
    /\ processing
    /\ drain[1].pc = "call"
    /\ drain[1].task = 2
\* C11: every job submitted with execute has its promise settled in the end,
\* with no further call by anyone, provided every invocation of a callable
\* ends.
C11_EveryJobSettles ==
    \A j \in Jobs : (j \in Range(submitOrder)) ~> (result[j] # Pending)

\* All jobs are settled, the last of them by a drain loop that a later execute
\* call had to start because the first drain had already ended.
C11_Witness ==
    /\ \A j \in Jobs : result[j] # Pending
    /\ drain[NumJobs].pc = "taskdone"
    /\ Len(dequeued) = NumJobs
\* What the outcome o of a job's last invocation should settle its promise
\* with: the value it returned, or the very error it raised.
Surfaced(o) == IF o.kind = "ok" THEN Resolution(o) ELSE Rejection(o)

\* C12: each job's promise is settled at most once, and a settled promise
\* carries the outcome of that job's last invocation: its value, or the very
\* error it raised.
C12_SettledWithLastOutcome ==
    \A j \in Jobs :
        /\ settles[j] <= 1
        /\ result[j] # Pending =>
               /\ settles[j] = 1
               /\ result[j] = Surfaced(lastOutcome[j])
\* C14: the min-interval wait is counted from the previous job's start.  A
\* task dequeued when rateLimit or more has passed since lastCallTime is
\* invoked in the same segment, with no wait; otherwise it waits exactly
\* rateLimit - (now - lastCallTime) and is not invoked yet.  A first
\* invocation happens only then or when that wait is over, and sets
\* lastCallTime to the time of the invocation.
C14_WaitCountedFromPreviousStart ==
    [][ /\ Len(dequeued') > Len(dequeued) =>
               LET t == dequeued'[Len(dequeued')] IN
               IF timeSinceLastCall >= RateLimit
               THEN /\ started' = Append(started, t)
                    /\ \E d \in Jobs : drain'[d].task = t /\ drain'[d].pc = "call"
               ELSE /\ started' = started
                    /\ \E d \in Jobs :
                           /\ drain'[d].task = t
                           /\ drain'[d].pc = "wait"
                           /\ drain'[d].timer = RateLimit - timeSinceLastCall
        /\ Len(started') > Len(started) =>
               /\ timeSinceLastCall' = 0
               /\ timeSinceLastCall >= RateLimit
               /\ \/ Len(dequeued') > Len(dequeued)
                  \/ \E d \in Jobs : drain[d].pc = "wait" /\ drain[d].timer = 0
      ]_vars

\* The second job was dequeued after the first one had been retried, long
\* after the first one's start, and is being invoked.
C14_Witness ==
    /\ Len(started) = 2
    /\ invocations[started[1]] > 1
    /\ gapAtStart = TimeCap
    /\ timeSinceLastCall = 0
    /\ \E d \in Jobs : drain[d].pc = "call" /\ drain[d].task = started[2]

\* C15: whenever processing is false the queue is empty; a non-empty queue
\* always has an active drain loop.
C15_IdleMeansEmptyQueue ==
    /\ ~processing => queue = <<>>
    /\ queue # <<>> => ActiveDrains # {}

\* A drain has ended, with processing back to false, after jobs had been
\* queued behind a running one.
C15_Witness ==
    /\ ~processing
    /\ ActiveDrains = {}
    /\ Len(dequeued) = NumJobs
    /\ started = submitOrder
\* An invocation of a callable other than the very first one: a step that
\* raises some job's invocation count.
InvokesAgain == started # <<>> /\ invocations' # invocations

\* C16, as claimed: every two consecutive invocations of callables, retries
\* included, are at least rateLimit apart.
C16_AllInvocationsRateLimited ==
    [][InvokesAgain => sinceLastInvoke >= RateLimit]_vars

\* C16, amended: a retry comes no sooner than its backoff after the invocation
\* before it, and a job's first invocation comes no sooner than rateLimit
\* after the previous invocation unless that one was a retry of the job
\* before.
C16_RateLimitedButForRetries ==
    [][InvokesAgain =>
          IF started' = started
          THEN sinceLastInvoke >= Min(2 ^ retryCount, TimeCap)
          ELSE \/ sinceLastInvoke >= RateLimit
               \/ invocations[started[Len(started)]] > 1
      ]_vars

\* The first job was retried once, 2 s after its start at the earliest, and
\* the second job is being invoked for the first time exactly 2 s after that
\* start: right after the retry, with no wait in between.
C16_Witness ==
    /\ Len(started) = 2
    /\ invocations[started[1]] = 2
    /\ gapAtStart = RateLimit
    /\ sinceLastInvoke = 0
    /\ \E d \in Jobs :
           /\ drain[d].pc = "call"
           /\ drain[d].task = started[2]
           /\ invocations[started[2]] = 1

\* C13: the threadId of a POST /chat request differs from the threadId of
\* every other POST /chat request, so no two new conversations share a thread.
C13_NewThreadIdsDistinct ==
    \A r1, r2 \in Accepted :
        (r1 # r2 /\ req[r1].route = "new" /\ req[r2].route = "new")
            => req[r1].threadId # req[r2].threadId

\* C17: a request has no response while callAgent is awaited and exactly one
\* afterwards: 200 with the response (and the threadId on POST /chat) on
\* success; on failure 429 if the message holds '429', otherwise 401 if it
\* holds '401', otherwise 500; and the server that accepted a request keeps
\* listening whatever the requests' outcomes.
C17_OneResponsePerRequest ==
    /\ \A r \in Requests :
        /\ req[r].pc # "done" => responses[r] = <<>>
        /\ req[r].pc = "done" =>
            /\ Len(responses[r]) = 1
            /\ LET res == responses[r][1]
                   o == res.error
               IN  IF ~res.failed
                   THEN /\ res.status = StatusOk
                        /\ res.body = "response"
                        /\ res.threadId = IF req[r].route = "new"
                                          THEN req[r].threadId ELSE NoThreadId
                   ELSE /\ res.body = "error"
                        /\ o.has429 => res.status = StatusRateLimited
                        /\ (~o.has429 /\ o.has401)
                              => res.status = StatusUnauthorized
                        /\ (~o.has429 /\ ~o.has401)
                              => res.status = StatusInternal
    /\ Accepted # {} => server = "listening"

\* One request failed with both markers and was answered 429, a later one
\* on the other route succeeded and was answered 200, a third is in flight.
C17_Witness ==
    /\ \E r \in Requests :
        /\ req[r].pc = "done"
        /\ responses[r][1].failed
        /\ responses[r][1].error = [has429 |-> TRUE, has401 |-> TRUE]
        /\ responses[r][1].status = StatusRateLimited
        /\ \E r2 \in Requests :
            /\ r2 > r
            /\ req[r2].pc = "done"
            /\ req[r2].route # req[r].route
            /\ responses[r2][1].status = StatusOk
    /\ \E r \in Requests : req[r].pc = "calling"

\* C18: the first node run is the model call; the tool node runs only right
\* after a model-call step whose message has at least one tool call; a tool
\* step is followed by a model-call step; the run ends normally only right
\* after a model-call step whose message has no tool call, and what is
\* returned is that message.
C18_GraphControlFlow ==
    LET n == Len(nodeTrace)
    IN  /\ (gpc # "idle" /\ n = 0) => gpc \in {"agent", "failed"}
        /\ n > 0 => nodeTrace[1].node = "agent"
        /\ \A i \in 1..n :
              nodeTrace[i].node = "tools" =>
                  /\ i > 1
                  /\ nodeTrace[i - 1].node = "agent"
                  /\ nodeTrace[i - 1].calls >= 1
                  /\ i < n => nodeTrace[i + 1].node = "agent"
        /\ (n > 0 /\ nodeTrace[n].node = "tools") => gpc \in {"agent", "failed"}
        /\ gpc \in {"__end__", "returned"} =>
              /\ n > 0
              /\ nodeTrace[n] = [node |-> "agent", calls |-> 0]
              /\ messages[Len(messages)].type = "ai"
              /\ messages[Len(messages)].calls = 0
        /\ gpc = "returned" =>
              /\ returned = messages[Len(messages)]
              /\ returned.type = "ai"
              /\ returned.calls = 0

\* A run that called tools twice, the second time for two calls, and then
\* returned the model's answer.
C18_Witness ==
    /\ gpc = "returned"
    /\ Len(nodeTrace) = 5
    /\ nodeTrace[2].node = "tools"
    /\ nodeTrace[4] = [node |-> "tools", calls |-> 2]
    /\ returned.type = "ai"
    /\ returned.id = Len(messages)

\* C19: while an attempt inserts, the collection holds exactly the records
\* of that attempt submitted so far, in order (the attempt deleted what was
\* there, and a record is submitted when the one before it is in); when the
\* attempt reaches "Database seeding completed" the collection is the list
\* generated in that attempt, each record once, in generation order.
C19_CollectionIsThisAttempt ==
    /\ spc = "inserting" =>
          /\ idx \in 1..Len(data)
          /\ collection = SubSeq(data, 1, idx - 1)
    /\ spc = "completed" =>
          /\ data = Generated(attempt, Len(data))
          /\ Len(data) > 0
          /\ collection = data

\* The last attempt allowed completed with a full generation, after earlier
\* attempts ended in a retry.
C19_Witness ==
    /\ spc = "completed"
    /\ attempt = MaxAttempts
    /\ Len(collection) = MaxRecords
    /\ collection[1] = <<MaxAttempts, 1>>

====
